---- MODULE Spec2Model ----
(***************************************************************************)
(* Card scanner (card_scanner_app.py): the field-extraction engine         *)
(* (parse_card_data), the two cleaners (clean_expansion_code,              *)
(* clean_collector_number) and the batch of card records that the worker   *)
(* thread and the edit handler keep.                                       *)
(*                                                                         *)
(* A Python str is modelled as a sequence of one-character strings, so     *)
(* that slicing, searching and the regular expressions of the source are   *)
(* computed character by character.  Indices returned by Find and by the   *)
(* search operators are 0-based, as in Python.                             *)
(***************************************************************************)
EXTENDS Integers, Sequences, FiniteSets, TLC

VARIABLES
    raw_input,        \* cleaner harness: the string handed to the cleaners
    cleaned_once,     \* <<>> or <<[collector, expansion]>>: one application
    cleaned_twice,    \* <<>> or <<[collector, expansion]>>: second application
    line_sequence,    \* parser harness: the OCR line sequence of one image
    parsed,           \* <<>> or <<[title, collector_number, expansion]>>
    normalized,       \* <<>> or <<[cleaned_collector, cleaned_expansion]>>
    ocr_available,    \* HAS_OCR and self.ocr is not None
    folder_files,     \* number of image files in the input folder
    ocr_result,       \* what self.ocr returns or raises for each image file
    card_data,        \* self.card_data: the batch of card records
    processing_active,  \* self.processing_active
    current_image_path, \* self.current_image_path: 0 is None
    selection,        \* the selected row of the results table: 0 is none
    buttons,          \* whether the Process and the Stop button are enabled
    workers           \* the process_images threads: position, loop index

harness_vars == <<raw_input, cleaned_once, cleaned_twice, line_sequence, parsed, normalized>>

app_vars == <<ocr_available, folder_files, ocr_result, card_data,
              processing_active, current_image_path, selection, buttons, workers>>

vars == <<harness_vars, app_vars>>

(***************************************************************************)
(* Characters and character classes (re: \d, \D, \b, [A-Z], [CUMLR]).      *)
(***************************************************************************)
Digits == {"0", "1", "2", "3", "4", "5", "6", "7", "8", "9"}

UpperCase == {"A", "B", "C", "D", "E", "F", "G", "H", "I", "J", "K", "L", "M",
              "N", "O", "P", "Q", "R", "S", "T", "U", "V", "W", "X", "Y", "Z"}

LowerCase == {"a", "b", "c", "d", "e", "f", "g", "h", "i", "j", "k", "l", "m",
              "n", "o", "p", "q", "r", "s", "t", "u", "v", "w", "x", "y", "z"}

\* \w of the re module, on the ASCII characters the model uses
WordChars == Digits \cup UpperCase \cup LowerCase \cup {"_"}

\* what str.strip() removes
Whitespace == {" ", "\t", "\n"}

\* [CUMLR] and [CLUMR]: the same set of rarity letters
RarityLetters == {"C", "U", "M", "L", "R"}

\* the sentinel "Unknown"
Unknown == <<"U", "n", "k", "n", "o", "w", "n">>

SetMin(S) == CHOOSE x \in S : \A y \in S : x <= y

SetMax(S) == CHOOSE x \in S : \A y \in S : y <= x

(***************************************************************************)
(* str operations                                                          *)
(***************************************************************************)
\* s[a:b] with 0 <= a <= b <= len(s)
Slice(s, a, b) == SubSeq(s, a + 1, b)

\* s.find(sub): 0-based index of the first occurrence, -1 if there is none
Find(s, sub) ==
    LET hits == {p \in 0..(Len(s) - Len(sub)) : Slice(s, p, p + Len(sub)) = sub}
    IN  IF hits = {} THEN -1 ELSE SetMin(hits)

\* sub in s
Contains(s, sub) == Find(s, sub) >= 0

\* s.strip()
Strip(s) ==
    LET keep == {p \in 1..Len(s) : s[p] \notin Whitespace}
    IN  IF keep = {} THEN <<>> ELSE SubSeq(s, SetMin(keep), SetMax(keep))

\* " ".join(lines)
RECURSIVE JoinLines(_)
JoinLines(lines) ==
    IF Len(lines) = 0 THEN <<>>
    ELSE IF Len(lines) = 1 THEN lines[1]
    ELSE lines[1] \o <<" ">> \o JoinLines(Tail(lines))

IsDigit(c) == c \in Digits

NotDot(c) == c /= "."

\* re.search(r'\d', s) is not None
HasDigit(s) == \E p \in 1..Len(s) : s[p] \in Digits

\* s.split('/')[0]: the part before the first slash (s itself without a slash)
BeforeFirstSlash(s) ==
    LET p == Find(s, <<"/">>)
    IN  IF p < 0 THEN s ELSE Slice(s, 0, p)

(***************************************************************************)
(* The cleaners                                                            *)
(***************************************************************************)
ExpansionMaxLen == 3

\* a cleaner without the pass-through of "" and "Unknown"
clean_expansion_code_NoPassThrough(expansion_code) ==
    LET cleaned == SelectSeq(expansion_code, NotDot)
    IN  IF Len(cleaned) > ExpansionMaxLen
        THEN Slice(cleaned, 0, ExpansionMaxLen)
        ELSE cleaned

clean_expansion_code(expansion_code) ==
    IF expansion_code = <<>> \/ expansion_code = Unknown THEN expansion_code
    ELSE LET cleaned == SelectSeq(expansion_code, NotDot)
         IN  IF Len(cleaned) > ExpansionMaxLen
             THEN Slice(cleaned, 0, ExpansionMaxLen)
             ELSE cleaned

\* a cleaner that strips the non-digits before it splits on the slash
clean_collector_number_StripFirst(collector_number) ==
    IF collector_number = <<>> \/ collector_number = Unknown THEN collector_number
    ELSE LET stripped == IF HasDigit(collector_number)
                         THEN SelectSeq(collector_number, IsDigit)
                         ELSE collector_number
         IN  BeforeFirstSlash(stripped)

\* a cleaner that keeps the part after the last slash
clean_collector_number_LastPart(collector_number) ==
    IF collector_number = <<>> \/ collector_number = Unknown THEN collector_number
    ELSE LET slashes == {p \in 1..Len(collector_number) : collector_number[p] = "/"}
             part == IF slashes = {} THEN collector_number
                     ELSE SubSeq(collector_number, SetMax(slashes) + 1, Len(collector_number))
         IN  IF HasDigit(part) THEN SelectSeq(part, IsDigit) ELSE part

\* a cleaner that splits at the last slash (rsplit) instead of the first
clean_collector_number_RSplit(collector_number) ==
    IF collector_number = <<>> \/ collector_number = Unknown THEN collector_number
    ELSE LET slashes == {p \in 1..Len(collector_number) : collector_number[p] = "/"}
             part == IF slashes = {} THEN collector_number
                     ELSE SubSeq(collector_number, 1, SetMax(slashes) - 1)
         IN  IF HasDigit(part) THEN SelectSeq(part, IsDigit) ELSE part

clean_collector_number(collector_number) ==
    IF collector_number = <<>> \/ collector_number = Unknown THEN collector_number
    ELSE LET part == IF Contains(collector_number, <<"/">>)
                     THEN BeforeFirstSlash(collector_number)
                     ELSE collector_number
             cleaned_number == SelectSeq(part, IsDigit)
         IN  IF HasDigit(part) /\ cleaned_number /= <<>> THEN cleaned_number ELSE part

(***************************************************************************)
(* Regular expressions of parse_card_data.  A match is <<>> (None) or a    *)
(* one-element sequence holding the captured text.  Every search takes the *)
(* leftmost start and, from it, the longest repetitions (greedy), as the   *)
(* re module does.                                                         *)
(***************************************************************************)
\* number of consecutive characters of class C in s from 0-based position p
RECURSIVE RunLen(_, _, _)
RunLen(s, p, C) ==
    IF p < Len(s) /\ s[p + 1] \in C THEN 1 + RunLen(s, p + 1, C) ELSE 0

\* \b at 0-based position k: exactly one side of k is a word character
WordBoundary(s, k) ==
    (k > 0 /\ s[k] \in WordChars) /= (k < Len(s) /\ s[k + 1] \in WordChars)

\* re.search(r'([A-Z]{3})\.EN', line): group(1)
DotEnSearch(line) ==
    LET hits == {p \in 0..(Len(line) - 6) :
                    /\ RunLen(line, p, UpperCase) >= 3
                    /\ Slice(line, p + 3, p + 6) = <<".", "E", "N">>}
    IN  IF hits = {} THEN <<>>
        ELSE <<Slice(line, SetMin(hits), SetMin(hits) + 3)>>

\* "EN" in line, en_index = line.find("EN"), en_index > 0: line[:en_index].strip()
BareEnSearch(line) ==
    IF Contains(line, <<"E", "N">>)
    THEN LET en_index == Find(line, <<"E", "N">>)
         IN  IF en_index > 0 THEN <<Strip(Slice(line, 0, en_index))>> ELSE <<>>
    ELSE <<>>

\* re.search(r'\b[A-Z]{3,}\b', full_text): group(0)
UpperRunSearch(full_text) ==
    LET ends(p) == {e \in (p + 3)..(p + RunLen(full_text, p, UpperCase)) :
                        WordBoundary(full_text, e)}
        hits == {p \in 0..Len(full_text) :
                    WordBoundary(full_text, p) /\ ends(p) /= {}}
    IN  IF hits = {} THEN <<>>
        ELSE <<Slice(full_text, SetMin(hits), SetMax(ends(SetMin(hits))))>>

\* the matches of \d+/\d+ in s starting at p: the 0-based positions
\* [mid |-> of the slash, end |-> after the second number]
SlashMatchesAt(s, p) ==
    {m \in [mid : (p + 1)..(p + RunLen(s, p, Digits)), end : 0..Len(s)] :
        /\ m.mid < Len(s) /\ s[m.mid + 1] = "/"
        /\ m.end \in (m.mid + 2)..(m.mid + 1 + RunLen(s, m.mid + 1, Digits))}

\* re.search(r'(\d+/\d+[CUMLR]?)', s): group(1)
SlashOptRaritySearch(s) ==
    LET hits == {p \in 0..Len(s) : SlashMatchesAt(s, p) /= {}}
    IN  IF hits = {} THEN <<>>
        ELSE LET p == SetMin(hits)
                 e == SetMax({m.end : m \in SlashMatchesAt(s, p)})
             IN  IF e < Len(s) /\ s[e + 1] \in RarityLetters
                 THEN <<Slice(s, p, e + 1)>>
                 ELSE <<Slice(s, p, e)>>

\* re.match(r'^([CLUMR])(\d{4})', line.strip()): group(2)
RarityPrefixDigits == 4

\* a match that keeps the rarity letter in front of the digits
RarityPrefixMatch_KeepsLetter(line) ==
    LET s == Strip(line)
    IN  IF /\ Len(s) >= 1 + RarityPrefixDigits
           /\ s[1] \in RarityLetters
           /\ RunLen(s, 1, Digits) >= RarityPrefixDigits
        THEN <<Slice(s, 0, 1 + RarityPrefixDigits)>>
        ELSE <<>>

RarityPrefixMatch(line) ==
    LET s == Strip(line)
    IN  IF /\ Len(s) >= 1 + RarityPrefixDigits
           /\ s[1] \in RarityLetters
           /\ RunLen(s, 1, Digits) >= RarityPrefixDigits
        THEN <<Slice(s, 1, 1 + RarityPrefixDigits)>>
        ELSE <<>>

\* re.search(r'(\d+)/(\d+)([CUMLR])', line): f"{group(1)}/{group(2)}{group(3)}"
RaritySlashSearch(line) ==
    LET ok(p) == {m \in SlashMatchesAt(line, p) :
                    m.end < Len(line) /\ line[m.end + 1] \in RarityLetters}
        hits == {p \in 0..Len(line) : ok(p) /= {}}
    IN  IF hits = {} THEN <<>>
        ELSE LET p == SetMin(hits)
                 m == CHOOSE x \in ok(p) : \A y \in ok(p) : y.end <= x.end
             IN  <<Slice(line, p, m.mid) \o <<"/">> \o Slice(line, m.mid + 1, m.end)
                     \o <<line[m.end + 1]>> >>

\* re.search(r'(\d+)/(\d+)', line): f"{group(1)}/{group(2)}"
PlainSlashSearch(line) ==
    LET hits == {p \in 0..Len(line) : SlashMatchesAt(line, p) /= {}}
    IN  IF hits = {} THEN <<>>
        ELSE LET p == SetMin(hits)
                 m == CHOOSE x \in SlashMatchesAt(line, p) :
                          \A y \in SlashMatchesAt(line, p) : y.end <= x.end
             IN  <<Slice(line, p, m.mid) \o <<"/">> \o Slice(line, m.mid + 1, m.end)>>

\* re.findall(r'\b\d+\b', line): standalone_digits[0]
StandaloneSearch(line) ==
    LET ends(p) == {e \in (p + 1)..(p + RunLen(line, p, Digits)) :
                        WordBoundary(line, e)}
        hits == {p \in 0..Len(line) : WordBoundary(line, p) /\ ends(p) /= {}}
    IN  IF hits = {} THEN <<>>
        ELSE <<Slice(line, SetMin(hits), SetMax(ends(SetMin(hits))))>>

(***************************************************************************)
(* parse_card_data                                                         *)
(***************************************************************************)
\* for line in text_lines: ... break: the first match in a sequence of matches
FirstMatch(matches) ==
    LET hits == {i \in 1..Len(matches) : matches[i] /= <<>>}
    IN  IF hits = {} THEN <<>> ELSE matches[SetMin(hits)]

\* expansion stage 1: the first line with a dot-EN match
DotEnStage(text_lines) ==
    FirstMatch([i \in 1..Len(text_lines) |-> DotEnSearch(text_lines[i])])

\* expansion stage 2: the first line with "EN" at an index greater than 0
BareEnStage(text_lines) ==
    FirstMatch([i \in 1..Len(text_lines) |-> BareEnSearch(text_lines[i])])

\* the first line with a slash match, rarity letter optional
SlashOptRarityStage(text_lines) ==
    FirstMatch([i \in 1..Len(text_lines) |-> SlashOptRaritySearch(text_lines[i])])

\* collector stage 2: the first line that starts with a rarity letter and 4 digits
RarityPrefixStage(text_lines) ==
    FirstMatch([i \in 1..Len(text_lines) |-> RarityPrefixMatch(text_lines[i])])

\* collector stage 3: the first line with a slash match followed by a rarity letter
RaritySlashStage(text_lines) ==
    FirstMatch([i \in 1..Len(text_lines) |-> RaritySlashSearch(text_lines[i])])

\* collector stage 4: the first line with a plain slash match
PlainSlashStage(text_lines) ==
    FirstMatch([i \in 1..Len(text_lines) |-> PlainSlashSearch(text_lines[i])])

\* collector stage 5: the first line with a standalone number
StandaloneStage(text_lines) ==
    FirstMatch([i \in 1..Len(text_lines) |-> StandaloneSearch(text_lines[i])])

\* a title rule that takes the first line, blank or not
extract_title_FirstLine(text_lines) ==
    IF Len(text_lines) = 0 \/ Strip(text_lines[1]) = <<>> THEN Unknown
    ELSE Strip(text_lines[1])

\* title: the first line with line.strip() non-empty, stripped
extract_title(text_lines) ==
    LET hits == {i \in 1..Len(text_lines) : Strip(text_lines[i]) /= <<>>}
    IN  IF hits = {} THEN Unknown ELSE Strip(text_lines[SetMin(hits)])

\* expansion: each stage runs only while expansion == "Unknown"
expansion_cascade(text_lines, full_text) ==
    LET dot_en == DotEnStage(text_lines)
        expansion1 == IF dot_en /= <<>> THEN dot_en[1] ELSE Unknown
        bare_en == BareEnStage(text_lines)
        expansion2 == IF expansion1 = Unknown /\ bare_en /= <<>>
                      THEN bare_en[1] ELSE expansion1
        exp_match == UpperRunSearch(full_text)
        expansion3 == IF expansion2 = Unknown /\ exp_match /= <<>>
                      THEN exp_match[1] ELSE expansion2
    IN  expansion3

AnchorWindow == 2

\* for j in range(i+1, min(i+3, len(text_lines))): the first slash match in
\* the lines after the line of 0-based index i
WindowMatch(text_lines, i) ==
    LET last == IF i + 1 + AnchorWindow < Len(text_lines)
                THEN i + 1 + AnchorWindow ELSE Len(text_lines)
    IN  SlashOptRarityStage(SubSeq(text_lines, i + 2, last))

\* the lines that contain "Inc." and are not the last line (0-based indices)
AnchorLines(text_lines) ==
    {i \in 0..(Len(text_lines) - 2) :
        Contains(text_lines[i + 1], <<"I", "n", "c", ".">>)}

\* an anchor stage that stops at the first "Inc." line, match or not
AnchorStage_FirstOnly(text_lines) ==
    IF AnchorLines(text_lines) = {} THEN <<>>
    ELSE WindowMatch(text_lines, SetMin(AnchorLines(text_lines)))

\* the loop over the lines breaks only when a window matched: every anchor
\* line is tried in order until one of the windows matches
AnchorStage(text_lines) ==
    LET hits == {i \in AnchorLines(text_lines) : WindowMatch(text_lines, i) /= <<>>}
    IN  IF hits = {} THEN <<>> ELSE WindowMatch(text_lines, SetMin(hits))

\* a collector cascade that tries the plain slash before the rarity stages
collector_cascade_PlainSlashFirst(text_lines) ==
    LET anchor == AnchorStage(text_lines)
        plain_slash == PlainSlashStage(text_lines)
        rarity_start == RarityPrefixStage(text_lines)
        rarity_slash == RaritySlashStage(text_lines)
        standalone == StandaloneStage(text_lines)
    IN  IF anchor /= <<>> THEN anchor[1]
        ELSE IF plain_slash /= <<>> THEN plain_slash[1]
        ELSE IF rarity_start /= <<>> THEN rarity_start[1]
        ELSE IF rarity_slash /= <<>> THEN rarity_slash[1]
        ELSE IF standalone /= <<>> THEN standalone[1]
        ELSE Unknown

\* collector number: each stage runs only while collector_number == "Unknown"
collector_cascade(text_lines) ==
    LET anchor == AnchorStage(text_lines)
        collector1 == IF anchor /= <<>> THEN anchor[1] ELSE Unknown
        rarity_start == RarityPrefixStage(text_lines)
        collector2 == IF collector1 = Unknown /\ rarity_start /= <<>>
                      THEN rarity_start[1] ELSE collector1
        rarity_slash == RaritySlashStage(text_lines)
        collector3 == IF collector2 = Unknown /\ rarity_slash /= <<>>
                      THEN rarity_slash[1] ELSE collector2
        plain_slash == PlainSlashStage(text_lines)
        collector4 == IF collector3 = Unknown /\ plain_slash /= <<>>
                      THEN plain_slash[1] ELSE collector3
        standalone == StandaloneStage(text_lines)
        collector5 == IF collector4 = Unknown /\ standalone /= <<>>
                      THEN standalone[1] ELSE collector4
    IN  collector5

EmptyMarker == <<"E", "m", "p", "t", "y">>

\* a parser that runs the stages on a text that holds the "Empty" marker
parse_card_data_NoEmptyCheck(text_lines, full_text) ==
    IF text_lines = <<>>
    THEN [title |-> Unknown, collector_number |-> Unknown, expansion |-> Unknown]
    ELSE [title |-> extract_title(text_lines),
          collector_number |-> collector_cascade(text_lines),
          expansion |-> expansion_cascade(text_lines, full_text)]

parse_card_data(text_lines, full_text) ==
    IF text_lines = <<>> \/ Contains(full_text, EmptyMarker)
    THEN [title |-> Unknown, collector_number |-> Unknown, expansion |-> Unknown]
    ELSE [title |-> extract_title(text_lines),
          collector_number |-> collector_cascade(text_lines),
          expansion |-> expansion_cascade(text_lines, full_text)]

(***************************************************************************)
(* Inputs.  The lines are the shapes the stages of parse_card_data tell    *)
(* apart; the strings for the cleaners are all the strings over a small    *)
(* alphabet, and the raw values of the scenarios.                          *)
(***************************************************************************)
EmptyLine == <<>>

BlankLine == <<" ", " ">>

PaddedLine == <<" ", "A", "b", " ">>

EmptyMarkerLine == <<"E", "m", "p", "t", "y">>

DotEnLine == <<"A", "B", "C", ".", "E", "N">>

BareEnLine == <<"X", "Y", "Z", "E", "N", " ", "S", "E", "T">>

SpaceEnLine == <<" ", "E", "N">>

UnknownEnLine == <<"U", "n", "k", "n", "o", "w", "n", "E", "N">>

UpperRunLine == <<"S", "E", "T">>

LeadingEnLine == <<"E", "N">>

PlainSlashLine == <<"1", "2", "/", "9", "9">>

IncLine == <<"I", "n", "c", ".">>

RarityPrefixLine == <<"C", "0", "0", "4", "2">>

RaritySlashLine == <<"7", "/", "1", "2", "0", "U">>

StandaloneLine == <<"4", "2">>

AttachedNumberLine == <<"a", "1">>

LongRarityLine == <<"C", "0", "0", "4", "2", "1">>

PaddedRarityLine == <<" ", "U", "1", "2", "3", "4", " ">>

DoubleLetterLine == <<"C", "C", "0", "0", "4", "2">>

ShortRarityLine == <<"R", "1", "2", "3">>

\* lines that exercise the title rule, the "Empty" marker and the expansion stages
ExpansionLines ==
    {EmptyLine, BlankLine, PaddedLine, EmptyMarkerLine, DotEnLine, BareEnLine,
     SpaceEnLine, UnknownEnLine, UpperRunLine, LeadingEnLine, PlainSlashLine}

\* lines that exercise the collector stages
CollectorLines ==
    {IncLine, RarityPrefixLine, RaritySlashLine, PlainSlashLine, StandaloneLine,
     AttachedNumberLine}

\* lines that exercise the rarity-prefix stage: letters and digit runs of
\* several lengths at the start of the line
RarityLines ==
    {RarityPrefixLine, LongRarityLine, PaddedRarityLine, DoubleLetterLine,
     ShortRarityLine}

Scenario1 ==
    <<<<"D", "r", "a", "g", "o", "n", " ", "K", "n", "i", "g", "h", "t">>,
      <<"A", "B", "C", ".", "E", "N">>,
      <<"1", "2", "/", "9", "9">>>>

Scenario2 ==
    <<<<"F", "i", "r", "e", " ", "E", "l", "e", "m", "e", "n", "t", "a", "l">>,
      <<"X", "Y", "Z", "E", "N", " ", "S", "E", "T">>,
      <<"C", "0", "0", "4", "2">>>>

Scenario3 ==
    <<<<"W", "a", "t", "e", "r", " ", "S", "p", "i", "r", "i", "t">>,
      <<"W", "i", "z", "a", "r", "d", "s", " ", "o", "f", " ", "t", "h", "e", " ", "C", "o", "a", "s", "t", " ", "I", "n", "c", ".">>,
      <<"7", "/", "1", "2", "0", "U">>,
      <<"f", "l", "a", "v", "o", "r", " ", "t", "e", "x", "t">>>>

Scenario4 ==
    <<<<" ", " ", " ">>,
      <<>>,
      <<"?", "?", "?">>>>

MaxLines == 3

MaxAnchorLines == 4

SeqsUpTo(S, n) == UNION {[1..k -> S] : k \in 0..n}

LineSequences ==
    SeqsUpTo(ExpansionLines, MaxLines) \cup SeqsUpTo(CollectorLines, MaxAnchorLines)
        \cup SeqsUpTo(RarityLines, MaxLines)
        \cup {Scenario1, Scenario2, Scenario3, Scenario4}

CleanAlphabet == {"1", "2", "/", ".", "a"}

MaxStrLen == 4

CleanInputs ==
    SeqsUpTo(CleanAlphabet, MaxStrLen)
        \cup {Unknown, RaritySlashLine, PlainSlashLine, DotEnLine,
              <<"U", "n", "k", "n", "o", "w", "n", "/", "5">>, <<"U", "n", "k", ".", "n", "o", "w", "n">>}

(***************************************************************************)
(* The cleaners on one string: cleaned once, as process_single_image and   *)
(* update_selected_item do with a raw value, and cleaned again, as happens *)
(* when on_result_select loads the cleaned values into the edit fields and *)
(* update_selected_item cleans what the fields hold.                       *)
(***************************************************************************)
CleanInit ==
    /\ raw_input \in CleanInputs
    /\ cleaned_once = <<>>
    /\ cleaned_twice = <<>>
    /\ line_sequence = <<>>
    /\ parsed = <<>>
    /\ normalized = <<>>
    /\ ocr_available = TRUE
    /\ folder_files = 0
    /\ ocr_result = <<>>
    /\ card_data = <<>>
    /\ processing_active = FALSE
    /\ current_image_path = 0
    /\ selection = 0
    /\ buttons = <<>>
    /\ workers = <<>>

CleanRaw ==
    /\ cleaned_once = <<>>
    /\ cleaned_once' = <<[collector |-> clean_collector_number(raw_input),
                          expansion |-> clean_expansion_code(raw_input)]>>
    /\ UNCHANGED <<raw_input, cleaned_twice, line_sequence, parsed, normalized, app_vars>>

CleanAgain ==
    /\ cleaned_once /= <<>>
    /\ cleaned_twice = <<>>
    /\ cleaned_twice' = <<[collector |-> clean_collector_number(cleaned_once[1].collector),
                           expansion |-> clean_expansion_code(cleaned_once[1].expansion)]>>
    /\ UNCHANGED <<raw_input, cleaned_once, line_sequence, parsed, normalized, app_vars>>

CleanNext == CleanRaw \/ CleanAgain

SpecClean == CleanInit /\ [][CleanNext]_vars

(***************************************************************************)
(* The extraction engine on one line sequence, then the Normalizer on its  *)
(* raw collector number and expansion (process_single_image).              *)
(***************************************************************************)
ParseInit ==
    /\ line_sequence \in LineSequences
    /\ parsed = <<>>
    /\ normalized = <<>>
    /\ raw_input = <<>>
    /\ cleaned_once = <<>>
    /\ cleaned_twice = <<>>
    /\ ocr_available = TRUE
    /\ folder_files = 0
    /\ ocr_result = <<>>
    /\ card_data = <<>>
    /\ processing_active = FALSE
    /\ current_image_path = 0
    /\ selection = 0
    /\ buttons = <<>>
    /\ workers = <<>>

Parse ==
    /\ parsed = <<>>
    /\ parsed' = <<parse_card_data(line_sequence, JoinLines(line_sequence))>>
    /\ UNCHANGED <<line_sequence, normalized, raw_input, cleaned_once, cleaned_twice, app_vars>>

Normalize ==
    /\ parsed /= <<>>
    /\ normalized = <<>>
    /\ normalized' = <<[cleaned_collector |-> clean_collector_number(parsed[1].collector_number),
                        cleaned_expansion |-> clean_expansion_code(parsed[1].expansion)]>>
    /\ UNCHANGED <<line_sequence, parsed, raw_input, cleaned_once, cleaned_twice, app_vars>>

ParseNext == Parse \/ Normalize

SpecParse == ParseInit /\ [][ParseNext]_vars

(***************************************************************************)
(* The application: the Process and Stop buttons, the process_images       *)
(* worker threads, the results table and the manual edit.  An image path   *)
(* is a number 1..folder_files.  A callback scheduled with root.after(0,    *)
(* ...) is taken to run at once, so the results table has one row per      *)
(* record of card_data, in the same order: row r shows card_data[r].  The  *)
(* table keeps its selection while rows are added; clear_results deletes   *)
(* the rows and with them the selection.  The Update button is enabled by  *)
(* the first selection and update_selected_item returns without a          *)
(* selection, so its state is not kept; nor is that of the Export button,  *)
(* whose handler only reads the batch.  The display-only state (log,       *)
(* status line, progress bar, preview image, the text_lines kept for       *)
(* display) is left out.                                                   *)
(***************************************************************************)
NumImages == 1

MaxRuns == 2

Processed == "Processed"

Updated == "Updated"

DigitChars == <<"0", "1", "2", "3", "4", "5", "6", "7", "8", "9">>

\* os.path.splitext(filename)[0] of the image file number path
FilenameStem(path) == <<"c", "a", "r", "d", DigitChars[(path % 10) + 1]>>

NoTextTitle == <<"N", "o", " ", "t", "e", "x", "t", " ", "d", "e", "t", "e", "c", "t", "e", "d">>

OcrErrorTitle == <<"O", "C", "R", " ", "E", "r", "r", "o", "r">>

\* what self.ocr(image_path) can do: return recognized lines, return nothing,
\* or raise
OcrOutcomes ==
    <<[kind |-> "lines", lines |-> <<SpaceEnLine>>],
      [kind |-> "none", lines |-> <<>>],
      [kind |-> "lines", lines |-> Scenario3],
      [kind |-> "error", lines |-> <<>>]>>

\* the outcomes of the image files 1..n: the outcomes above in turn, from the
\* one numbered first
OcrResults(n, first) ==
    [p \in 1..n |-> OcrOutcomes[((p + first - 2) % Len(OcrOutcomes)) + 1]]

\* the outcomes that the first image file may have
OcrFirsts == {1, 3}

\* the raw triple of process_single_image
RawTriple(path, outcome) ==
    IF ~ocr_available
    THEN [title |-> FilenameStem(path), collector_number |-> Unknown, expansion |-> Unknown]
    ELSE IF outcome.kind = "error"
    THEN [title |-> OcrErrorTitle, collector_number |-> Unknown, expansion |-> Unknown]
    ELSE IF outcome.lines = <<>>
    THEN [title |-> NoTextTitle, collector_number |-> Unknown, expansion |-> Unknown]
    ELSE parse_card_data(outcome.lines, JoinLines(outcome.lines))

\* item = {...}: the record process_single_image appends
NewCard(path, raw) ==
    [image_path |-> path,
     title |-> raw.title,
     collector_number |-> raw.collector_number,
     cleaned_collector |-> clean_collector_number(raw.collector_number),
     expansion |-> raw.expansion,
     cleaned_expansion |-> clean_expansion_code(raw.expansion),
     status |-> Processed]

\* an edit that stores the new raw values and keeps the old cleaned ones
EditedCard_KeepsCleaned(card, new_title, new_collector, new_expansion) ==
    [card EXCEPT !.title = new_title,
                 !.collector_number = new_collector,
                 !.expansion = new_expansion,
                 !.status = Updated]

\* the record after update_selected_item
EditedCard(card, new_title, new_collector, new_expansion) ==
    [card EXCEPT !.title = new_title,
                 !.collector_number = new_collector,
                 !.cleaned_collector = clean_collector_number(new_collector),
                 !.expansion = new_expansion,
                 !.cleaned_expansion = clean_expansion_code(new_expansion),
                 !.status = Updated]

\* what the user may have typed into the three edit fields
EditInputs ==
    {[title |-> <<>>, collector |-> <<>>, expansion |-> <<>>],
     [title |-> PaddedLine, collector |-> PlainSlashLine, expansion |-> DotEnLine]}

Idle == [pc |-> "idle", i |-> 0]

Init ==
    /\ ocr_available \in BOOLEAN
    /\ folder_files \in 0..NumImages
    /\ \E first \in OcrFirsts :
          /\ ocr_available \/ first = 1
          /\ ocr_result = OcrResults(folder_files, first)
    /\ card_data = <<>>
    /\ processing_active = FALSE
    /\ current_image_path = 0
    /\ selection = 0
    /\ buttons = [process |-> TRUE, stop |-> FALSE]
    /\ workers = [w \in 1..MaxRuns |-> Idle]
    /\ raw_input = <<>>
    /\ cleaned_once = <<>>
    /\ cleaned_twice = <<>>
    /\ line_sequence = <<>>
    /\ parsed = <<>>
    /\ normalized = <<>>

\* start_processing (with clear_results): the Process button
StartProcessing ==
    /\ buttons.process
    /\ \E w \in 1..MaxRuns :
        /\ workers[w].pc = "idle"
        /\ \A v \in 1..(w - 1) : workers[v].pc /= "idle"
        /\ workers' = [workers EXCEPT ![w] = [pc |-> "list", i |-> 0]]
    /\ card_data' = <<>>
    /\ current_image_path' = 0
    /\ selection' = 0
    /\ processing_active' = TRUE
    /\ buttons' = [process |-> FALSE, stop |-> TRUE]
    /\ UNCHANGED <<ocr_available, folder_files, ocr_result, harness_vars>>

\* stop_processing: the Stop button
StopProcessing ==
    /\ buttons.stop
    /\ processing_active' = FALSE
    /\ buttons' = [process |-> TRUE, stop |-> FALSE]
    /\ UNCHANGED <<ocr_available, folder_files, ocr_result, card_data,
                   current_image_path, selection, workers, harness_vars>>

\* process_images up to the loop: list the folder; return if it holds no image
WorkerList(w) ==
    /\ workers[w].pc = "list"
    /\ IF folder_files = 0
       THEN /\ workers' = [workers EXCEPT ![w].pc = "done"]
            /\ buttons' = [process |-> TRUE, stop |-> FALSE]
       ELSE /\ workers' = [workers EXCEPT ![w].pc = "check"]
            /\ UNCHANGED buttons
    /\ UNCHANGED <<ocr_available, folder_files, ocr_result, card_data,
                   processing_active, current_image_path, selection, harness_vars>>

\* for i, fname in enumerate(files): if not self.processing_active: break
WorkerCheck(w) ==
    /\ workers[w].pc = "check"
    /\ workers' = [workers EXCEPT ![w].pc =
                      IF workers[w].i < folder_files /\ processing_active
                      THEN "image" ELSE "finish"]
    /\ UNCHANGED <<ocr_available, folder_files, ocr_result, card_data,
                   processing_active, current_image_path, selection, buttons,
                   harness_vars>>

\* process_single_image(path) for the file of 0-based index i
WorkerImage(w) ==
    /\ workers[w].pc = "image"
    /\ LET path == workers[w].i + 1
       IN  card_data' = Append(card_data, NewCard(path, RawTriple(path, ocr_result[path])))
    /\ workers' = [workers EXCEPT ![w] = [pc |-> "check", i |-> workers[w].i + 1]]
    /\ UNCHANGED <<ocr_available, folder_files, ocr_result, processing_active,
                   current_image_path, selection, buttons, harness_vars>>

\* process_images after the loop
WorkerFinish(w) ==
    /\ workers[w].pc = "finish"
    /\ processing_active' = FALSE
    /\ buttons' = [process |-> TRUE, stop |-> FALSE]
    /\ workers' = [workers EXCEPT ![w].pc = "done"]
    /\ UNCHANGED <<ocr_available, folder_files, ocr_result, card_data,
                   current_image_path, selection, harness_vars>>

\* the records of the batch whose image_path is path
CardsOf(path) == {k \in 1..Len(card_data) : card_data[k].image_path = path}

\* on_result_select: the user selects row r of the results table
OnResultSelect(r) ==
    /\ r \in 1..Len(card_data)
    /\ selection' = r
    /\ current_image_path' = card_data[r].image_path
    /\ UNCHANGED <<ocr_available, folder_files, ocr_result, card_data,
                   processing_active, buttons, workers, harness_vars>>

\* update_selected_item: the Update button with a row selected, and what the
\* edit fields hold
UpdateSelectedItem(edit) ==
    /\ selection /= 0
    /\ card_data' =
          IF CardsOf(current_image_path) = {} THEN card_data
          ELSE [card_data EXCEPT ![SetMin(CardsOf(current_image_path))] =
                    EditedCard(@, edit.title, edit.collector, edit.expansion)]
    /\ UNCHANGED <<ocr_available, folder_files, ocr_result, processing_active,
                   current_image_path, selection, buttons, workers,
                   harness_vars>>

Next ==
    \/ StartProcessing
    \/ StopProcessing
    \/ \E w \in 1..MaxRuns : WorkerList(w)
    \/ \E w \in 1..MaxRuns : WorkerCheck(w)
    \/ \E w \in 1..MaxRuns : WorkerImage(w)
    \/ \E w \in 1..MaxRuns : WorkerFinish(w)
    \/ \E r \in 1..Len(card_data) : OnResultSelect(r)
    \/ \E edit \in EditInputs : UpdateSelectedItem(edit)

Spec == Init /\ [][Next]_vars

(***************************************************************************)
(* Properties of the batch (Spec)                                          *)
(***************************************************************************)
\* C1: in every record of the batch the title, the raw collector number and
\* the raw expansion code are never the empty string.
C1_FieldsNeverEmpty ==
    \A k \in 1..Len(card_data) :
        /\ card_data[k].title /= <<>>
        /\ card_data[k].collector_number /= <<>>
        /\ card_data[k].expansion /= <<>>

\* C2: in every record of the batch the cleaned collector number and the
\* cleaned expansion code are the cleaners' results on the raw values of the
\* same record.
C2_CleanedFromRaw ==
    \A k \in 1..Len(card_data) :
        /\ card_data[k].cleaned_collector
               = clean_collector_number(card_data[k].collector_number)
        /\ card_data[k].cleaned_expansion
               = clean_expansion_code(card_data[k].expansion)

\* a record has been edited and both its cleaned values differ from the raw
\* values the edit stored
C2_Witness ==
    \E k \in 1..Len(card_data) :
        /\ card_data[k].status = Updated
        /\ card_data[k].cleaned_collector /= card_data[k].collector_number
        /\ card_data[k].cleaned_expansion /= card_data[k].expansion

\* C12: a record is created with status "Processed"; an edit stores the
\* cleaners' results on the edit fields in the selected record and sets its
\* status to "Updated"; an "Updated" record stays "Updated"; and no record
\* leaves the batch except when start_processing resets the whole batch.
C12_RecordLifecycle ==
    [][/\ \A k \in (Len(card_data) + 1)..Len(card_data') :
              card_data'[k].status = Processed
       /\ \A edit \in EditInputs :
              UpdateSelectedItem(edit) =>
                  /\ card_data'[selection].status = Updated
                  /\ card_data'[selection].cleaned_collector
                         = clean_collector_number(edit.collector)
                  /\ card_data'[selection].cleaned_expansion
                         = clean_expansion_code(edit.expansion)
       /\ \/ StartProcessing
          \/ /\ Len(card_data') >= Len(card_data)
             /\ \A k \in 1..Len(card_data) :
                    /\ card_data'[k].image_path = card_data[k].image_path
                    /\ card_data[k].status = Updated => card_data'[k].status = Updated
      ]_vars

\* the worker of the current run: the one started last (0 before the first run)
CurrentWorker ==
    LET started == {w \in 1..MaxRuns : workers[w].pc /= "idle"}
    IN  IF started = {} THEN 0 ELSE SetMax(started)

\* C14: the batch holds one record for each image that the worker of the
\* current run has completed, in the order of processing, and no image twice.
C14_OneRecordPerImage ==
    /\ Len(card_data) = IF CurrentWorker = 0 THEN 0 ELSE workers[CurrentWorker].i
    /\ \A k \in 1..Len(card_data) : card_data[k].image_path = k

\* C15: a worker whose run was stopped starts no further image, even when
\* start_processing has started the next worker since: only the worker of
\* the current run passes from the flag check to process_single_image.
C15_StoppedWorkerStartsNoImage ==
    [][\A w \in 1..MaxRuns :
          (workers[w].pc = "check" /\ workers'[w].pc = "image") => w = CurrentWorker
      ]_vars

(***************************************************************************)
(* Properties of the cleaners (SpecClean)                                  *)
(***************************************************************************)
SlashCount(s) == Cardinality({p \in 1..Len(s) : s[p] = "/"})

\* C3: both cleaners are idempotent: cleaning the cleaned collector number
\* and the cleaned expansion code again changes neither.
C3_CleanersIdempotent ==
    cleaned_twice /= <<>> =>
        /\ cleaned_twice[1].collector = cleaned_once[1].collector
        /\ cleaned_twice[1].expansion = cleaned_once[1].expansion

\* an input with several slashes, no digit and dots, which both cleaners
\* change, has been cleaned twice
C3_Witness ==
    /\ cleaned_twice /= <<>>
    /\ SlashCount(raw_input) >= 2
    /\ ~HasDigit(raw_input)
    /\ Contains(raw_input, <<".">>)
    /\ cleaned_once[1].collector /= raw_input
    /\ cleaned_once[1].expansion /= raw_input

\* the longest prefix of s that holds no slash
PartBeforeSlash(s) ==
    LET n == CHOOSE k \in 0..Len(s) :
                 /\ \A j \in 1..k : s[j] /= "/"
                 /\ k = Len(s) \/ s[k + 1] = "/"
    IN  SubSeq(s, 1, n)

\* C10: for an input other than "Unknown" and "", the cleaned collector
\* number is the part before the first slash with its non-digits removed if
\* that part holds a digit, and that part unchanged if it holds none; the
\* result holds no slash, and "7/120U" cleans to "7".
C10_SlashThenDigits ==
    (cleaned_once /= <<>> /\ raw_input /= Unknown /\ raw_input /= <<>>) =>
        LET part == PartBeforeSlash(raw_input)
            result == cleaned_once[1].collector
        IN  /\ (\E p \in 1..Len(part) : part[p] \in Digits)
                => result = SelectSeq(part, IsDigit)
            /\ (\A p \in 1..Len(part) : part[p] \notin Digits) => result = part
            /\ \A p \in 1..Len(result) : result[p] /= "/"
            /\ raw_input = RaritySlashLine => result = <<"7">>

\* "7/120U" has been cleaned to "7"
C10_Witness ==
    /\ cleaned_once /= <<>>
    /\ raw_input = RaritySlashLine
    /\ cleaned_once[1].collector = <<"7">>

\* C11: both cleaners return "Unknown" for "Unknown" and "" for "": neither
\* dot removal, truncation, slash split nor digit stripping touches them.
C11_SentinelPassThrough ==
    (cleaned_once /= <<>> /\ raw_input \in {Unknown, <<>>}) =>
        /\ cleaned_once[1].collector = raw_input
        /\ cleaned_once[1].expansion = raw_input

\* "Unknown", which is longer than an expansion code may be, has been cleaned
\* and came back whole from both cleaners
C11_Witness ==
    /\ cleaned_once /= <<>>
    /\ raw_input = Unknown
    /\ Len(raw_input) > ExpansionMaxLen
    /\ cleaned_once[1].collector = Unknown
    /\ cleaned_once[1].expansion = Unknown

(***************************************************************************)
(* Properties of the extraction engine (SpecParse)                         *)
(***************************************************************************)
\* the short-circuit condition: no line, or "Empty" in the full text
ShortCircuited(lines) ==
    lines = <<>> \/ Contains(JoinLines(lines), EmptyMarker)

\* C4: for an empty line sequence, or a full text that contains "Empty",
\* expansion and collector number are "Unknown" whatever the lines hold, and
\* for an empty sequence the title is "Unknown" too.
C4_ShortCircuit ==
    (parsed /= <<>> /\ ShortCircuited(line_sequence)) =>
        /\ parsed[1].expansion = Unknown
        /\ parsed[1].collector_number = Unknown
        /\ line_sequence = <<>> => parsed[1].title = Unknown

\* a text with the "Empty" marker, a dot-EN line and a slash line was parsed
C4_Witness ==
    /\ parsed /= <<>>
    /\ line_sequence /= <<>>
    /\ Contains(JoinLines(line_sequence), EmptyMarker)
    /\ DotEnStage(line_sequence) /= <<>>
    /\ PlainSlashStage(line_sequence) /= <<>>
    /\ parsed[1].expansion = Unknown
    /\ parsed[1].collector_number = Unknown

NonBlankLines(lines) == {i \in 1..Len(lines) : Strip(lines[i]) /= <<>>}

\* C5 as stated: the title is the first non-blank line (trimmed), and it is
\* "Unknown" only when the sequence is empty or all its lines are blank.
C5_TitleFirstNonBlank ==
    parsed /= <<>> =>
        /\ NonBlankLines(line_sequence) /= {}
            => parsed[1].title = Strip(line_sequence[SetMin(NonBlankLines(line_sequence))])
        /\ parsed[1].title = Unknown => NonBlankLines(line_sequence) = {}

\* C5 amended: unless the text is short-circuited the title is the first
\* non-blank line, trimmed, and "Unknown" when every line is blank; a
\* short-circuited text has the title "Unknown".
C5_TitleUnlessShortCircuited ==
    parsed /= <<>> =>
        parsed[1].title =
            IF ShortCircuited(line_sequence) \/ NonBlankLines(line_sequence) = {}
            THEN Unknown
            ELSE Strip(line_sequence[SetMin(NonBlankLines(line_sequence))])

\* a text whose first line is blank and whose first non-blank line needs
\* trimming was parsed
C5_Witness ==
    /\ parsed /= <<>>
    /\ ~ShortCircuited(line_sequence)
    /\ NonBlankLines(line_sequence) /= {}
    /\ SetMin(NonBlankLines(line_sequence)) > 1
    /\ Strip(line_sequence[SetMin(NonBlankLines(line_sequence))])
           /= line_sequence[SetMin(NonBlankLines(line_sequence))]
    /\ parsed[1].title = Strip(line_sequence[SetMin(NonBlankLines(line_sequence))])

\* the result of the rarity-prefix, rarity-slash, plain-slash and
\* standalone-number stages, in this order: <<>> when none matches
LaterStages(lines) ==
    IF RarityPrefixStage(lines) /= <<>>
    THEN RarityPrefixStage(lines)
    ELSE IF RaritySlashStage(lines) /= <<>>
    THEN RaritySlashStage(lines)
    ELSE IF PlainSlashStage(lines) /= <<>>
    THEN PlainSlashStage(lines)
    ELSE StandaloneStage(lines)

OrUnknown(match) == IF match = <<>> THEN Unknown ELSE match[1]

\* the first anchor line exists and its window holds no match
FirstAnchorMisses(lines) ==
    /\ AnchorLines(lines) /= {}
    /\ WindowMatch(lines, SetMin(AnchorLines(lines))) = <<>>

\* the anchor lines whose window holds a match
MatchingAnchors(lines) == {i \in AnchorLines(lines) : WindowMatch(lines, i) /= <<>>}

\* C6 as stated: when the window of the first "Inc." line holds no match the
\* anchor stage yields nothing and the result is that of the later stages.
C6_FirstAnchorOnly ==
    (parsed /= <<>> /\ ~ShortCircuited(line_sequence) /\ FirstAnchorMisses(line_sequence)) =>
        parsed[1].collector_number = OrUnknown(LaterStages(line_sequence))

\* C6 amended: when the window of the first "Inc." line holds no match the
\* later "Inc." lines are tried in order and the first window match is the
\* result; the later stages decide only when no anchor's window matches.
C6_EveryAnchorTried ==
    (parsed /= <<>> /\ ~ShortCircuited(line_sequence) /\ FirstAnchorMisses(line_sequence)) =>
        parsed[1].collector_number =
            IF MatchingAnchors(line_sequence) /= {}
            THEN WindowMatch(line_sequence, SetMin(MatchingAnchors(line_sequence)))[1]
            ELSE OrUnknown(LaterStages(line_sequence))

\* the first anchor's window misses, a later anchor's window matches, and
\* the result is not what the later stages would give
C6_Witness ==
    /\ parsed /= <<>>
    /\ ~ShortCircuited(line_sequence)
    /\ FirstAnchorMisses(line_sequence)
    /\ MatchingAnchors(line_sequence) /= {}
    /\ parsed[1].collector_number /= OrUnknown(LaterStages(line_sequence))

\* C7: the expansion is the result of the dot-EN stage if it matches, else
\* of the bare-EN stage if it matches, else of the uppercase-run stage; a
\* later stage never overrides an earlier stage that matched.
C7_ExpansionOrdering ==
    (parsed /= <<>> /\ ~ShortCircuited(line_sequence)) =>
        parsed[1].expansion =
            IF DotEnStage(line_sequence) /= <<>>
            THEN DotEnStage(line_sequence)[1]
            ELSE IF BareEnStage(line_sequence) /= <<>>
            THEN BareEnStage(line_sequence)[1]
            ELSE OrUnknown(UpperRunSearch(JoinLines(line_sequence)))

\* C8: the collector number is the result of the earliest stage that matches,
\* in the order publisher-anchor, rarity-prefix, rarity-slash, plain-slash,
\* standalone-number, and it is "Unknown" exactly when no stage matches.
C8_CollectorOrdering ==
    (parsed /= <<>> /\ ~ShortCircuited(line_sequence)) =>
        /\ parsed[1].collector_number =
              IF AnchorStage(line_sequence) /= <<>>
              THEN AnchorStage(line_sequence)[1]
              ELSE OrUnknown(LaterStages(line_sequence))
        /\ parsed[1].collector_number = Unknown
              <=> (AnchorStage(line_sequence) = <<>> /\ LaterStages(line_sequence) = <<>>)

\* a text that the rarity-prefix stage and the plain-slash stage both match,
\* with different results, was parsed and the earlier stage decided
C8_Witness ==
    /\ parsed /= <<>>
    /\ ~ShortCircuited(line_sequence)
    /\ AnchorStage(line_sequence) = <<>>
    /\ RarityPrefixStage(line_sequence) /= <<>>
    /\ PlainSlashStage(line_sequence) /= <<>>
    /\ RarityPrefixStage(line_sequence)
           /= PlainSlashStage(line_sequence)
    /\ parsed[1].collector_number = RarityPrefixStage(line_sequence)[1]

\* C9 as stated: scenario 1 yields title "Dragon Knight", expansion "ABC",
\* raw collector "12/99", cleaned collector "12/99", cleaned expansion "ABC".
C9_Scenario1 ==
    (line_sequence = Scenario1 /\ normalized /= <<>>) =>
        /\ parsed[1].title = Scenario1[1]
        /\ parsed[1].expansion = <<"A", "B", "C">>
        /\ parsed[1].collector_number = <<"1", "2", "/", "9", "9">>
        /\ normalized[1].cleaned_collector = <<"1", "2", "/", "9", "9">>
        /\ normalized[1].cleaned_expansion = <<"A", "B", "C">>

\* C9 amended: as stated, but the cleaned collector number is "12".
C9_Scenario1CleanedToNumber ==
    (line_sequence = Scenario1 /\ normalized /= <<>>) =>
        /\ parsed[1].title = Scenario1[1]
        /\ parsed[1].expansion = <<"A", "B", "C">>
        /\ parsed[1].collector_number = <<"1", "2", "/", "9", "9">>
        /\ normalized[1].cleaned_collector = <<"1", "2">>
        /\ normalized[1].cleaned_expansion = <<"A", "B", "C">>

\* scenario 1 has been parsed and normalized
C9_Witness ==
    /\ line_sequence = Scenario1
    /\ normalized /= <<>>
    /\ parsed[1].collector_number = PlainSlashLine

\* a line that, trimmed, starts with one rarity letter and four digits
StartsWithRarityAndFourDigits(line) ==
    LET s == Strip(line)
    IN  /\ Len(s) >= 5
        /\ s[1] \in RarityLetters
        /\ \A p \in 2..5 : s[p] \in Digits

\* as above, and the four digits are not followed by a fifth
ExactlyFourDigits(line) ==
    /\ StartsWithRarityAndFourDigits(line)
    /\ Len(Strip(line)) = 5 \/ Strip(line)[6] \notin Digits

\* the result of the rarity-slash, plain-slash and standalone-number stages
AfterRarityPrefix(lines) ==
    IF RaritySlashStage(lines) /= <<>>
    THEN RaritySlashStage(lines)
    ELSE IF PlainSlashStage(lines) /= <<>>
    THEN PlainSlashStage(lines)
    ELSE StandaloneStage(lines)

\* C13 as stated: when the publisher-anchor stage yields nothing, the
\* collector number is the four digits of the first line that, trimmed,
\* starts with one rarity letter and exactly four digits; a line with the
\* letter and five or more digits does not match, so without such a line the
\* later stages decide.
C13_ExactlyFourDigits ==
    (parsed /= <<>> /\ ~ShortCircuited(line_sequence) /\ AnchorStage(line_sequence) = <<>>) =>
        LET hits == {i \in 1..Len(line_sequence) : ExactlyFourDigits(line_sequence[i])}
        IN  parsed[1].collector_number =
                IF hits /= {}
                THEN SubSeq(Strip(line_sequence[SetMin(hits)]), 2, 5)
                ELSE OrUnknown(AfterRarityPrefix(line_sequence))

\* C13 amended: the stage matches the first line that, trimmed, starts with
\* one rarity letter and at least four digits, and the result is the first
\* four digits without the letter; a fifth digit does not prevent the match.
C13_AtLeastFourDigits ==
    (parsed /= <<>> /\ ~ShortCircuited(line_sequence) /\ AnchorStage(line_sequence) = <<>>) =>
        LET hits == {i \in 1..Len(line_sequence) :
                        StartsWithRarityAndFourDigits(line_sequence[i])}
        IN  parsed[1].collector_number =
                IF hits /= {}
                THEN SubSeq(Strip(line_sequence[SetMin(hits)]), 2, 5)
                ELSE OrUnknown(AfterRarityPrefix(line_sequence))

\* a text was parsed in which a line with a letter and three digits comes
\* first, then a line with a letter and five digits, then a line with a
\* letter and four digits: the result is the first four of the five digits
C13_Witness ==
    /\ parsed /= <<>>
    /\ Len(line_sequence) = 3
    /\ line_sequence[1] = ShortRarityLine
    /\ line_sequence[2] = LongRarityLine
    /\ line_sequence[3] = PaddedRarityLine
    /\ parsed[1].collector_number = <<"0", "0", "4", "2">>

====
